---- MODULE Spec2Model ----
(***************************************************************************)
(* Model of camera/libcameraservice/CameraHardware.cpp: the camera session *)
(* controller (preview loop, still capture, callback dispatch, parameter   *)
(* validation and the singleton factory).                                  *)
(***************************************************************************)
EXTENDS Integers, Sequences, FiniteSets, TLC

\* ------------------------------------------------------------------------
\* Bounds of the model
\* ------------------------------------------------------------------------
MaxLoops == 2      \* PreviewThread objects that may exist at once
MaxReg == 2        \* distinct setCallbacks registrations
MaxHeap == 2       \* distinct preview heaps that may exist at once
MaxAF == 1         \* autofocus tasks in flight
MaxSessions == 3   \* CameraHardware objects that may exist at once

\* ------------------------------------------------------------------------
\* Program constants
\* ------------------------------------------------------------------------
MIN_WIDTH == 640
MIN_HEIGHT == 480

Callers == {"c1", "c2"}
SeqCallers == {"c1"}
Clients == {"k1", "k2", "k3"}     \* threads that obtain and release handles
Loops == 1..MaxLoops
Kinds == {"PREVIEW_FRAME", "SHUTTER", "COMPRESSED_IMAGE", "FOCUS"}
NULL == 0

VARIABLES
    \* ---- CameraHardware fields
    mMsgEnabled,        \* set of enabled message kinds (bit mask)
    mNotifyFn,          \* notify callback slot (NULL or registration id)
    mDataFn,            \* data callback slot
    mUser,              \* consumer token
    previewStopped,     \* the "stopped" flag
    mPreviewThread,     \* sp<PreviewThread>: NULL or a loop id
    mHeap,              \* sp<MemoryHeapBase>: NULL or a heap id
    mPreviewFrameSize,
    mLock,              \* "free" or the caller holding the session mutex
    \* ---- the V4L2 device behind `camera`
    devOpen, devInit, devStreaming,
    devLevel,           \* 0..3: how far open<init<startStreaming got since the last teardown call
    \* ---- caller threads
    active,             \* the caller threads that issue calls
    pc, op, ret, previewThread,
    \* ---- preview loop threads and autofocus tasks
    lpc, exitPending,
    afChk, afCall,
    fault,              \* a NULL function pointer was called
    \* ---- callback invocation in progress: the operand loaded first
    lld, cld,           \* of each preview loop / caller thread
    afLd,               \* number of autofocus tasks holding each loaded operand
    \* ---- history
    phase, capWin, capPre, capLog,
    \* ---- parameters
    mParameters,        \* the stored CameraParameters
    lastParams,         \* argument of the latest setParameters call
    gotParams,          \* value returned by the latest getParameters call
    \* ---- the factory
    singleton,          \* wp<CameraHardwareInterface>: NULL or a session id
    strong,             \* strong reference count of each session object
    held,               \* the handle each client thread holds
    ipc, hardware       \* position in createInstance / destructor, local sp

ctlVars == <<mMsgEnabled, mNotifyFn, mDataFn, mUser, previewStopped, mPreviewThread,
             mHeap, mPreviewFrameSize, mLock>>
devVars == <<devOpen, devInit, devStreaming, devLevel>>
parVars == <<mParameters, lastParams, gotParams>>
facVars == <<singleton, strong, held, ipc, hardware>>
cbVars == <<lld, cld, afLd>>
envVars == <<active, parVars, facVars, cbVars>>
thrVars == <<envVars, pc, op, ret, previewThread>>
bgVars == <<lpc, exitPending, afChk, afCall, fault>>
histVars == <<phase, capWin, capPre, capLog>>
vars == <<ctlVars, devVars, thrVars, bgVars, histVars>>

\* ------------------------------------------------------------------------
\* Device channel
\* ------------------------------------------------------------------------
DevReady == devLevel = 3

camera_Open ==
    /\ devOpen' = TRUE
    /\ devLevel' = IF devLevel = 0 THEN 1 ELSE devLevel
    /\ UNCHANGED <<devInit, devStreaming>>

camera_Init ==
    /\ devInit' = TRUE
    /\ devLevel' = IF devLevel = 1 THEN 2 ELSE devLevel
    /\ UNCHANGED <<devOpen, devStreaming>>

camera_StartStreaming ==
    /\ devStreaming' = TRUE
    /\ devLevel' = IF devLevel = 2 THEN 3 ELSE devLevel
    /\ UNCHANGED <<devOpen, devInit>>

camera_Uninit ==
    /\ devInit' = FALSE
    /\ devLevel' = 0
    /\ UNCHANGED <<devOpen, devStreaming>>

camera_StopStreaming ==
    /\ devStreaming' = FALSE
    /\ devLevel' = 0
    /\ UNCHANGED <<devOpen, devInit>>

camera_Close ==
    /\ devOpen' = FALSE
    /\ devLevel' = 0
    /\ UNCHANGED <<devInit, devStreaming>>


\* ------------------------------------------------------------------------
\* Callback invocation: mNotifyFn(...) / mDataFn(...) through the raw slot
\* ------------------------------------------------------------------------
LogKinds == {"PREVIEW_FRAME", "SHUTTER", "COMPRESSED_IMAGE"}

\* The call expression fn(kind, ..., mUser) loads the function pointer and
\* the token from their fields one after the other, without the lock and in
\* an order the compiler chooses; the operand loaded first is kept as
\* <<"fn", value>> or <<"user", value>> until the call is made.
Regs == 0..MaxReg
LdVals == {"fn", "user"} \X Regs
LdNone == <<"none", 0>>

LoadFirst(slot) == {<<"fn", slot>>, <<"user", mUser>>}
UsedFn(l, slot) == IF l[1] = "fn" THEN l[2] ELSE slot
UsedUser(l) == IF l[1] = "user" THEN l[2] ELSE mUser

RECURSIVE AfLoaded(_)
AfLoaded(S) ==
    IF S = {} THEN 0
    ELSE LET l == CHOOSE x \in S : TRUE IN afLd[l] + AfLoaded(S \ {l})

Invoke(fn, kind) ==
    /\ fault' = (fn = NULL)
    /\ capLog' = IF capWin = "open" /\ capPre /\ kind \in LogKinds
                 THEN Append(capLog, kind) ELSE capLog

\* ------------------------------------------------------------------------
\* CameraParameters: the keys the controller reads or writes, plus one
\* unrelated key
\* ------------------------------------------------------------------------
PreviewFormats == {"yuv422sp", "yuv420sp", "yuv422sp-x"}
PictureFormats == {"jpeg", "jpe", "raw"}
Sessions == 1..MaxSessions

ParamSpace ==
    {q \in [previewW : {320, MIN_WIDTH}, previewH : {240, MIN_HEIGHT}, frameRate : {15, 30},
            previewFormat : PreviewFormats,
            pictureW : {MIN_WIDTH, 1280}, pictureH : {MIN_HEIGHT},
            pictureFormat : PictureFormats, other : {"", "x"}] :
        (q.previewW = MIN_WIDTH) <=> (q.previewH = MIN_HEIGHT)}

NoParams == [previewW |-> 0, previewH |-> 0, frameRate |-> 0, previewFormat |-> "",
             pictureW |-> 0, pictureH |-> 0, pictureFormat |-> "", other |-> ""]

\* the container built by initDefaultParameters
DefaultParameters ==
    [previewW |-> MIN_WIDTH, previewH |-> MIN_HEIGHT, frameRate |-> 15,
     previewFormat |-> "yuv422sp",
     pictureW |-> MIN_WIDTH, pictureH |-> MIN_HEIGHT, pictureFormat |-> "jpeg", other |-> ""]

\* strcmp(params.getPreviewFormat(), "yuv422sp") == 0 and
\* strcmp(params.getPictureFormat(), "jpeg") == 0
FormatsAccepted_previewOnly(params) == params.previewFormat = "yuv422sp"

FormatsAccepted(params) ==
    /\ params.previewFormat = "yuv422sp"
    /\ params.pictureFormat = "jpeg"

\* mParameters = params; mParameters.setPreviewSize(MIN_WIDTH, MIN_HEIGHT)
StoredParameters_asRequested(params) == params

StoredParameters(params) ==
    [params EXCEPT !.previewW = MIN_WIDTH, !.previewH = MIN_HEIGHT]

\* ------------------------------------------------------------------------
\* Construction
\* ------------------------------------------------------------------------
Init0 ==
    /\ mMsgEnabled \in SUBSET Kinds      \* not initialised by the constructor
    /\ mNotifyFn = NULL /\ mDataFn = NULL /\ mUser = NULL
    /\ previewStopped = TRUE
    /\ mPreviewThread = NULL
    /\ mHeap = NULL
    /\ mPreviewFrameSize = 0
    /\ mLock = "free"
    /\ devOpen = FALSE /\ devInit = FALSE /\ devStreaming = FALSE /\ devLevel = 0
    /\ pc = [t \in Callers |-> "idle"]
    /\ op = [t \in Callers |-> "none"]
    /\ ret = [t \in Callers |-> "none"]
    /\ previewThread = [t \in Callers |-> NULL]
    /\ lpc = [p \in Loops |-> "unborn"]
    /\ exitPending = [p \in Loops |-> FALSE]
    /\ afChk = 0 /\ afCall = 0
    /\ lld = [p \in Loops |-> LdNone]
    /\ cld = [t \in Callers |-> LdNone]
    /\ afLd = [l \in LdVals |-> 0]
    /\ fault = FALSE
    /\ phase = "none"
    /\ capWin = "none" /\ capPre = FALSE /\ capLog = <<>>
    \* the constructor ends with setParameters(DefaultParameters)
    /\ mParameters = IF FormatsAccepted(DefaultParameters)
                     THEN StoredParameters(DefaultParameters) ELSE NoParams
    /\ lastParams = DefaultParameters
    /\ gotParams = NoParams
    /\ singleton = NULL
    /\ strong = [s \in Sessions |-> 0]
    /\ held = [t \in Clients |-> NULL]
    /\ ipc = [t \in Clients |-> "idle"]
    /\ hardware = [t \in Clients |-> NULL]

Init == Init0 /\ active = Callers
InitSeq == Init0 /\ active = SeqCallers

Idle(t) == t \in active /\ pc[t] = "idle" /\ ~fault

\* history of the capture window: closed by the next call
CapReset == capWin' = "none" /\ capPre' = FALSE /\ capLog' = <<>>

\* ------------------------------------------------------------------------
\* setCallbacks / enableMsgType / disableMsgType
\* (each body is one Mutex::Autolock scope)
\* ------------------------------------------------------------------------
setCallbacks(t, notify_cb, data_cb, arg) ==
    /\ Idle(t) /\ mLock = "free"
    /\ mNotifyFn' = notify_cb
    /\ mDataFn' = data_cb
    /\ mUser' = arg
    /\ op' = [op EXCEPT ![t] = "setCallbacks"]
    /\ ret' = [ret EXCEPT ![t] = "void"]
    /\ UNCHANGED <<mMsgEnabled, previewStopped, mPreviewThread, mHeap, mPreviewFrameSize, mLock>>
    /\ CapReset
    /\ UNCHANGED <<devVars, envVars, pc, previewThread, bgVars, phase>>

enableMsgType(t, msgType) ==
    /\ Idle(t) /\ mLock = "free"
    /\ mMsgEnabled' = mMsgEnabled \cup msgType
    /\ op' = [op EXCEPT ![t] = "enableMsgType"]
    /\ ret' = [ret EXCEPT ![t] = "void"]
    /\ UNCHANGED <<mNotifyFn, mDataFn, mUser, previewStopped, mPreviewThread, mHeap,
                   mPreviewFrameSize, mLock>>
    /\ CapReset
    /\ UNCHANGED <<devVars, envVars, pc, previewThread, bgVars, phase>>

disableMsgType(t, msgType) ==
    /\ Idle(t) /\ mLock = "free"
    /\ mMsgEnabled' = mMsgEnabled \ msgType
    /\ op' = [op EXCEPT ![t] = "disableMsgType"]
    /\ ret' = [ret EXCEPT ![t] = "void"]
    /\ UNCHANGED <<mNotifyFn, mDataFn, mUser, previewStopped, mPreviewThread, mHeap,
                   mPreviewFrameSize, mLock>>
    /\ CapReset
    /\ UNCHANGED <<devVars, envVars, pc, previewThread, bgVars, phase>>

\* ------------------------------------------------------------------------
\* startPreview: the whole body runs under mLock
\* ------------------------------------------------------------------------
startPreview_enter_nocheck(t) ==
    /\ Idle(t) /\ mLock = "free"
    /\ op' = [op EXCEPT ![t] = "startPreview"]
    /\ mLock' = t
    /\ pc' = [pc EXCEPT ![t] = "sp_open"]
    /\ ret' = [ret EXCEPT ![t] = "none"]
    /\ phase' = "previewing"
    /\ UNCHANGED <<mMsgEnabled, mNotifyFn, mDataFn, mUser, previewStopped, mPreviewThread,
                   mHeap, mPreviewFrameSize>>
    /\ CapReset
    /\ UNCHANGED <<devVars, envVars, previewThread, bgVars>>

startPreview_enter(t) ==
    /\ Idle(t) /\ mLock = "free"
    /\ op' = [op EXCEPT ![t] = "startPreview"]
    /\ IF mPreviewThread # NULL
       THEN \* already running
            /\ ret' = [ret EXCEPT ![t] = "INVALID_OPERATION"]
            /\ UNCHANGED <<mLock, pc, phase>>
       ELSE /\ mLock' = t
            /\ pc' = [pc EXCEPT ![t] = "sp_open"]
            /\ ret' = [ret EXCEPT ![t] = "none"]
            /\ phase' = "previewing"
    /\ UNCHANGED <<mMsgEnabled, mNotifyFn, mDataFn, mUser, previewStopped, mPreviewThread,
                   mHeap, mPreviewFrameSize>>
    /\ CapReset
    /\ UNCHANGED <<devVars, envVars, previewThread, bgVars>>

startPreview_open(t) ==
    /\ t \in active /\ ~fault /\ pc[t] = "sp_open"
    /\ camera_Open
    /\ pc' = [pc EXCEPT ![t] = "sp_alloc"]
    /\ UNCHANGED <<ctlVars, envVars, op, ret, previewThread, bgVars, histVars>>

\* mPreviewFrameSize = MIN_WIDTH * MIN_HEIGHT * 2; mHeap = new MemoryHeapBase(..)
startPreview_alloc(t) ==
    /\ t \in active /\ ~fault /\ pc[t] = "sp_alloc"
    /\ mPreviewFrameSize' = MIN_WIDTH * MIN_HEIGHT * 2
    /\ \E h \in 1..MaxHeap :
          /\ h # mHeap
          /\ \A g \in 1..MaxHeap : g < h => g = mHeap
          /\ mHeap' = h
    /\ pc' = [pc EXCEPT ![t] = "sp_init"]
    /\ UNCHANGED <<mMsgEnabled, mNotifyFn, mDataFn, mUser, previewStopped, mPreviewThread, mLock>>
    /\ UNCHANGED <<devVars, envVars, op, ret, previewThread, bgVars, histVars>>

startPreview_init(t) ==
    /\ t \in active /\ ~fault /\ pc[t] = "sp_init"
    /\ camera_Init
    /\ pc' = [pc EXCEPT ![t] = "sp_stream"]
    /\ UNCHANGED <<ctlVars, envVars, op, ret, previewThread, bgVars, histVars>>

startPreview_stream(t) ==
    /\ t \in active /\ ~fault /\ pc[t] = "sp_stream"
    /\ camera_StartStreaming
    /\ pc' = [pc EXCEPT ![t] = "sp_flag"]
    /\ UNCHANGED <<ctlVars, envVars, op, ret, previewThread, bgVars, histVars>>

startPreview_flag(t) ==
    /\ t \in active /\ ~fault /\ pc[t] = "sp_flag"
    /\ previewStopped' = FALSE
    /\ pc' = [pc EXCEPT ![t] = "sp_spawn"]
    /\ UNCHANGED <<mMsgEnabled, mNotifyFn, mDataFn, mUser, mPreviewThread, mHeap,
                   mPreviewFrameSize, mLock>>
    /\ UNCHANGED <<devVars, envVars, op, ret, previewThread, bgVars, histVars>>

\* a PreviewThread object is free when nothing refers to it and it is not running
LoopFree(p) ==
    /\ lpc[p] \in {"unborn", "exited"}
    /\ mPreviewThread # p
    /\ \A u \in Callers : previewThread[u] # p

\* mPreviewThread = new PreviewThread(this); return NO_ERROR (the lock is released)
startPreview_spawn(t) ==
    /\ t \in active /\ ~fault /\ pc[t] = "sp_spawn"
    /\ \E p \in Loops :
          /\ LoopFree(p)
          /\ \A q \in Loops : q < p => ~LoopFree(q)
          /\ mPreviewThread' = p
          /\ lpc' = [lpc EXCEPT ![p] = "top"]
          /\ exitPending' = [exitPending EXCEPT ![p] = FALSE]
    /\ mLock' = "free"
    /\ pc' = [pc EXCEPT ![t] = "idle"]
    /\ ret' = [ret EXCEPT ![t] = "NO_ERROR"]
    /\ UNCHANGED <<mMsgEnabled, mNotifyFn, mDataFn, mUser, previewStopped, mHeap, mPreviewFrameSize>>
    /\ UNCHANGED <<devVars, envVars, op, previewThread, afChk, afCall, fault, histVars>>

\* ------------------------------------------------------------------------
\* stopPreview (also the first half of takePicture)
\* ------------------------------------------------------------------------
InStop(t) == t \in active /\ ~fault /\ op[t] \in {"stopPreview", "takePicture"}

\* callbacks registered and only the shutter and compressed-image kinds enabled
CapturePre ==
    /\ mNotifyFn # NULL /\ mDataFn # NULL
    /\ mMsgEnabled = {"SHUTTER", "COMPRESSED_IMAGE"}

\* { Mutex::Autolock lock(mLock); previewStopped = true; }
stopPreview_enter(t, o) ==
    /\ Idle(t) /\ mLock = "free"
    /\ op' = [op EXCEPT ![t] = o]
    /\ ret' = [ret EXCEPT ![t] = "none"]
    /\ previewStopped' = TRUE
    /\ pc' = [pc EXCEPT ![t] = "stp_check"]
    /\ IF o = "takePicture" /\ CapturePre
       THEN capWin' = "open" /\ capPre' = TRUE /\ capLog' = <<>>
       ELSE CapReset
    /\ UNCHANGED <<mMsgEnabled, mNotifyFn, mDataFn, mUser, mPreviewThread, mHeap,
                   mPreviewFrameSize, mLock>>
    /\ UNCHANGED <<devVars, envVars, previewThread, bgVars, phase>>

\* if (mPreviewThread != 0) { Uninit; StopStreaming; Close }, read without the lock
stopPreview_check_always(t) ==
    /\ InStop(t) /\ pc[t] = "stp_check"
    /\ pc' = [pc EXCEPT ![t] = "stp_uninit"]
    /\ UNCHANGED <<ctlVars, devVars, envVars, op, ret, previewThread, bgVars, histVars>>

stopPreview_check(t) ==
    /\ InStop(t) /\ pc[t] = "stp_check"
    /\ pc' = [pc EXCEPT ![t] = IF mPreviewThread # NULL THEN "stp_uninit" ELSE "stp_read"]
    /\ UNCHANGED <<ctlVars, devVars, envVars, op, ret, previewThread, bgVars, histVars>>

stopPreview_uninit_closeFirst(t) ==
    /\ InStop(t) /\ pc[t] = "stp_uninit"
    /\ camera_Close
    /\ pc' = [pc EXCEPT ![t] = "stp_stopstream"]
    /\ UNCHANGED <<ctlVars, envVars, op, ret, previewThread, bgVars, histVars>>

stopPreview_uninit(t) ==
    /\ InStop(t) /\ pc[t] = "stp_uninit"
    /\ camera_Uninit
    /\ pc' = [pc EXCEPT ![t] = "stp_stopstream"]
    /\ UNCHANGED <<ctlVars, envVars, op, ret, previewThread, bgVars, histVars>>

stopPreview_stopStreaming(t) ==
    /\ InStop(t) /\ pc[t] = "stp_stopstream"
    /\ camera_StopStreaming
    /\ pc' = [pc EXCEPT ![t] = "stp_close"]
    /\ UNCHANGED <<ctlVars, envVars, op, ret, previewThread, bgVars, histVars>>

stopPreview_close(t) ==
    /\ InStop(t) /\ pc[t] = "stp_close"
    /\ camera_Close
    /\ pc' = [pc EXCEPT ![t] = "stp_read"]
    /\ UNCHANGED <<ctlVars, envVars, op, ret, previewThread, bgVars, histVars>>

\* { Mutex::Autolock lock(mLock); previewThread = mPreviewThread; }
stopPreview_read(t) ==
    /\ InStop(t) /\ pc[t] = "stp_read" /\ mLock = "free"
    /\ previewThread' = [previewThread EXCEPT ![t] = mPreviewThread]
    /\ pc' = [pc EXCEPT ![t] = IF mPreviewThread # NULL THEN "stp_reqexit" ELSE "stp_clear"]
    /\ UNCHANGED <<ctlVars, devVars, envVars, op, ret, bgVars, histVars>>

\* previewThread->requestExitAndWait(): request the exit ...
stopPreview_requestExit(t) ==
    /\ InStop(t) /\ pc[t] = "stp_reqexit"
    /\ exitPending' = [exitPending EXCEPT ![previewThread[t]] = TRUE]
    /\ pc' = [pc EXCEPT ![t] = "stp_wait"]
    /\ UNCHANGED <<ctlVars, devVars, envVars, op, ret, previewThread, lpc, afChk, afCall,
                   fault, histVars>>

\* ... and wait until the thread has left its loop
stopPreview_wait_nojoin(t) ==
    /\ InStop(t) /\ pc[t] = "stp_wait"
    /\ pc' = [pc EXCEPT ![t] = "stp_clear"]
    /\ UNCHANGED <<ctlVars, devVars, envVars, op, ret, previewThread, bgVars, histVars>>

stopPreview_wait(t) ==
    /\ InStop(t) /\ pc[t] = "stp_wait"
    /\ lpc[previewThread[t]] = "exited"
    /\ pc' = [pc EXCEPT ![t] = "stp_clear"]
    /\ UNCHANGED <<ctlVars, devVars, envVars, op, ret, previewThread, bgVars, histVars>>

\* Mutex::Autolock lock(mLock); mPreviewThread.clear(); the local sp dies at return
stopPreview_clear_keepLock(t) ==
    /\ InStop(t) /\ pc[t] = "stp_clear" /\ mLock = "free"
    /\ mPreviewThread' = NULL
    /\ previewThread' = [previewThread EXCEPT ![t] = NULL]
    /\ phase' = IF phase = "previewing" THEN "stopped" ELSE phase
    /\ IF op[t] = "stopPreview"
       THEN /\ pc' = [pc EXCEPT ![t] = "idle"]
            /\ ret' = [ret EXCEPT ![t] = "void"]
            /\ UNCHANGED mLock
       ELSE /\ pc' = [pc EXCEPT ![t] = "pt_shutter_chk"]
            /\ mLock' = t
            /\ UNCHANGED ret
    /\ UNCHANGED <<mMsgEnabled, mNotifyFn, mDataFn, mUser, previewStopped, mHeap,
                   mPreviewFrameSize>>
    /\ UNCHANGED <<devVars, envVars, op, bgVars>>
    /\ UNCHANGED <<capWin, capPre, capLog>>

stopPreview_clear(t) ==
    /\ InStop(t) /\ pc[t] = "stp_clear" /\ mLock = "free"
    /\ mPreviewThread' = NULL
    /\ previewThread' = [previewThread EXCEPT ![t] = NULL]
    /\ phase' = IF phase = "previewing" THEN "stopped" ELSE phase
    /\ IF op[t] = "stopPreview"
       THEN /\ pc' = [pc EXCEPT ![t] = "idle"]
            /\ ret' = [ret EXCEPT ![t] = "void"]
       ELSE /\ pc' = [pc EXCEPT ![t] = "pt_shutter_chk"]
            /\ UNCHANGED ret
    /\ UNCHANGED <<mMsgEnabled, mNotifyFn, mDataFn, mUser, previewStopped, mHeap,
                   mPreviewFrameSize, mLock>>
    /\ UNCHANGED <<devVars, envVars, op, bgVars>>
    /\ UNCHANGED <<capWin, capPre, capLog>>

\* ------------------------------------------------------------------------
\* takePicture: stopPreview(); pictureThread(); on the caller's thread
\* ------------------------------------------------------------------------
InPicture(t) == t \in active /\ ~fault /\ op[t] = "takePicture"

takePicture_enter(t) == stopPreview_enter(t, "takePicture")

\* if (mMsgEnabled & CAMERA_MSG_SHUTTER)
pictureThread_shutterCheck(t) ==
    /\ InPicture(t) /\ pc[t] = "pt_shutter_chk"
    /\ pc' = [pc EXCEPT ![t] = IF "SHUTTER" \in mMsgEnabled THEN "pt_shutter_call" ELSE "pt_open"]
    /\ UNCHANGED <<ctlVars, devVars, envVars, op, ret, previewThread, bgVars, histVars>>

\* mNotifyFn(CAMERA_MSG_SHUTTER, 0, 0, mUser): the first operand is loaded ...
pictureThread_shutterLoad(t) ==
    /\ InPicture(t) /\ pc[t] = "pt_shutter_call"
    /\ \E l \in LoadFirst(mNotifyFn) : cld' = [cld EXCEPT ![t] = l]
    /\ pc' = [pc EXCEPT ![t] = "pt_shutter_call2"]
    /\ UNCHANGED <<ctlVars, devVars, active, parVars, facVars, lld, afLd, op, ret, previewThread,
                   bgVars, histVars>>

\* ... then the other one, and the call is made
pictureThread_shutterCall(t) ==
    /\ InPicture(t) /\ pc[t] = "pt_shutter_call2"
    /\ Invoke(UsedFn(cld[t], mNotifyFn), "SHUTTER")
    /\ cld' = [cld EXCEPT ![t] = LdNone]
    /\ pc' = [pc EXCEPT ![t] = "pt_open"]
    /\ UNCHANGED <<ctlVars, devVars, active, parVars, facVars, lld, afLd, op, ret, previewThread,
                   lpc, exitPending, afChk, afCall>>
    /\ UNCHANGED <<phase, capWin, capPre>>

pictureThread_open(t) ==
    /\ InPicture(t) /\ pc[t] = "pt_open"
    /\ camera_Open
    /\ pc' = [pc EXCEPT ![t] = "pt_init"]
    /\ UNCHANGED <<ctlVars, envVars, op, ret, previewThread, bgVars, histVars>>

pictureThread_init(t) ==
    /\ InPicture(t) /\ pc[t] = "pt_init"
    /\ camera_Init
    /\ pc' = [pc EXCEPT ![t] = "pt_stream"]
    /\ UNCHANGED <<ctlVars, envVars, op, ret, previewThread, bgVars, histVars>>

pictureThread_startStreaming(t) ==
    /\ InPicture(t) /\ pc[t] = "pt_stream"
    /\ camera_StartStreaming
    /\ pc' = [pc EXCEPT ![t] = "pt_jpeg_chk"]
    /\ UNCHANGED <<ctlVars, envVars, op, ret, previewThread, bgVars, histVars>>

\* if (mMsgEnabled & CAMERA_MSG_COMPRESSED_IMAGE)
pictureThread_jpegCheck(t) ==
    /\ InPicture(t) /\ pc[t] = "pt_jpeg_chk"
    /\ pc' = [pc EXCEPT ![t] = IF "COMPRESSED_IMAGE" \in mMsgEnabled THEN "pt_jpeg_grab" ELSE "pt_uninit"]
    /\ UNCHANGED <<ctlVars, devVars, envVars, op, ret, previewThread, bgVars, histVars>>

\* the argument camera.GrabJpegFrame() ...
pictureThread_jpegGrab(t) ==
    /\ InPicture(t) /\ pc[t] = "pt_jpeg_grab"
    /\ pc' = [pc EXCEPT ![t] = "pt_jpeg_call"]
    /\ UNCHANGED <<ctlVars, devVars, envVars, op, ret, previewThread, bgVars, histVars>>

\* ... the first of mDataFn and mUser is loaded ...
pictureThread_jpegLoad(t) ==
    /\ InPicture(t) /\ pc[t] = "pt_jpeg_call"
    /\ \E l \in LoadFirst(mDataFn) : cld' = [cld EXCEPT ![t] = l]
    /\ pc' = [pc EXCEPT ![t] = "pt_jpeg_call2"]
    /\ UNCHANGED <<ctlVars, devVars, active, parVars, facVars, lld, afLd, op, ret, previewThread,
                   bgVars, histVars>>

\* ... and the call mDataFn(CAMERA_MSG_COMPRESSED_IMAGE, frame, mUser) is made
pictureThread_jpegCall(t) ==
    /\ InPicture(t) /\ pc[t] = "pt_jpeg_call2"
    /\ Invoke(UsedFn(cld[t], mDataFn), "COMPRESSED_IMAGE")
    /\ cld' = [cld EXCEPT ![t] = LdNone]
    /\ pc' = [pc EXCEPT ![t] = "pt_uninit"]
    /\ UNCHANGED <<ctlVars, devVars, active, parVars, facVars, lld, afLd, op, ret, previewThread,
                   lpc, exitPending, afChk, afCall>>
    /\ UNCHANGED <<phase, capWin, capPre>>

pictureThread_uninit(t) ==
    /\ InPicture(t) /\ pc[t] = "pt_uninit"
    /\ camera_Uninit
    /\ pc' = [pc EXCEPT ![t] = "pt_stopstream"]
    /\ UNCHANGED <<ctlVars, envVars, op, ret, previewThread, bgVars, histVars>>

pictureThread_stopStreaming(t) ==
    /\ InPicture(t) /\ pc[t] = "pt_stopstream"
    /\ camera_StopStreaming
    /\ pc' = [pc EXCEPT ![t] = "pt_close"]
    /\ UNCHANGED <<ctlVars, envVars, op, ret, previewThread, bgVars, histVars>>

pictureThread_close_noClose(t) ==
    /\ InPicture(t) /\ pc[t] = "pt_close"
    /\ pc' = [pc EXCEPT ![t] = "idle"]
    /\ ret' = [ret EXCEPT ![t] = "NO_ERROR"]
    /\ capWin' = IF capWin = "open" THEN "done" ELSE capWin
    /\ UNCHANGED <<ctlVars, devVars, envVars, op, previewThread, bgVars>>
    /\ UNCHANGED <<phase, capPre, capLog>>

\* camera.Close(); pictureThread and takePicture return NO_ERROR
pictureThread_close(t) ==
    /\ InPicture(t) /\ pc[t] = "pt_close"
    /\ camera_Close
    /\ pc' = [pc EXCEPT ![t] = "idle"]
    /\ ret' = [ret EXCEPT ![t] = "NO_ERROR"]
    /\ capWin' = IF capWin = "open" THEN "done" ELSE capWin
    /\ UNCHANGED <<ctlVars, envVars, op, previewThread, bgVars>>
    /\ UNCHANGED <<phase, capPre, capLog>>

\* ------------------------------------------------------------------------
\* autoFocus and its one-shot task
\* ------------------------------------------------------------------------
\* createThread(beginAutoFocusThread, this) under mLock; ok = it succeeded
autoFocus(t, ok) ==
    /\ Idle(t) /\ mLock = "free"
    /\ ok => afChk + afCall + AfLoaded(LdVals) < MaxAF
    /\ op' = [op EXCEPT ![t] = "autoFocus"]
    /\ ret' = [ret EXCEPT ![t] = IF ok THEN "NO_ERROR" ELSE "UNKNOWN_ERROR"]
    /\ afChk' = IF ok THEN afChk + 1 ELSE afChk
    /\ CapReset
    /\ UNCHANGED <<ctlVars, devVars, envVars, pc, previewThread, lpc, exitPending, afCall, fault,
                   phase>>

\* if (mMsgEnabled & CAMERA_MSG_FOCUS)
autoFocusThread_check ==
    /\ ~fault /\ afChk > 0
    /\ afChk' = afChk - 1
    /\ afCall' = IF "FOCUS" \in mMsgEnabled THEN afCall + 1 ELSE afCall
    /\ UNCHANGED <<ctlVars, devVars, thrVars, lpc, exitPending, fault, histVars>>

\* mNotifyFn(CAMERA_MSG_FOCUS, true, 0, mUser): the first operand is loaded ...
autoFocusThread_load ==
    /\ ~fault /\ afCall > 0
    /\ afCall' = afCall - 1
    /\ \E l \in LoadFirst(mNotifyFn) : afLd' = [afLd EXCEPT ![l] = @ + 1]
    /\ UNCHANGED <<ctlVars, devVars, active, parVars, facVars, lld, cld, pc, op, ret,
                   previewThread, lpc, exitPending, afChk, fault, histVars>>

\* ... then the other one, and the call is made
autoFocusThread_call ==
    /\ ~fault
    /\ \E l \in LdVals :
          /\ afLd[l] > 0
          /\ afLd' = [afLd EXCEPT ![l] = @ - 1]
          /\ Invoke(UsedFn(l, mNotifyFn), "FOCUS")
    /\ UNCHANGED <<ctlVars, devVars, active, parVars, facVars, lld, cld, pc, op, ret,
                   previewThread, lpc, exitPending, afChk, afCall>>
    /\ UNCHANGED <<phase, capWin, capPre>>

\* status_t CameraHardware::cancelAutoFocus() { return NO_ERROR; }  (no lock)
cancelAutoFocus(t) ==
    /\ Idle(t)
    /\ op' = [op EXCEPT ![t] = "cancelAutoFocus"]
    /\ ret' = [ret EXCEPT ![t] = "NO_ERROR"]
    /\ CapReset
    /\ UNCHANGED <<ctlVars, devVars, envVars, pc, previewThread, bgVars, phase>>

\* status_t CameraHardware::cancelPicture() { return NO_ERROR; }  (no lock)
cancelPicture(t) ==
    /\ Idle(t)
    /\ op' = [op EXCEPT ![t] = "cancelPicture"]
    /\ ret' = [ret EXCEPT ![t] = "NO_ERROR"]
    /\ CapReset
    /\ UNCHANGED <<ctlVars, devVars, envVars, pc, previewThread, bgVars, phase>>

\* ------------------------------------------------------------------------
\* The preview loop: PreviewThread::threadLoop calls previewThread() until
\* an exit was requested or the last reference to the thread object is gone
\* ------------------------------------------------------------------------
Orphan(p) == mPreviewThread # p /\ \A u \in Callers : previewThread[u] # p

threadLoop(p) ==
    /\ ~fault /\ lpc[p] = "top"
    /\ lpc' = [lpc EXCEPT ![p] = IF exitPending[p] \/ Orphan(p) THEN "exited" ELSE "run"]
    /\ UNCHANGED <<ctlVars, devVars, thrVars, exitPending, afChk, afCall, fault, histVars>>

\* if (!previewStopped), read without the lock
previewThread_stopCheck(p) ==
    /\ ~fault /\ lpc[p] = "run"
    /\ lpc' = [lpc EXCEPT ![p] = IF ~previewStopped THEN "grab" ELSE "top"]
    /\ UNCHANGED <<ctlVars, devVars, thrVars, exitPending, afChk, afCall, fault, histVars>>

\* camera.GrabPreviewFrame(mHeap->getBase())
previewThread_grab(p) ==
    /\ ~fault /\ lpc[p] = "grab"
    /\ lpc' = [lpc EXCEPT ![p] = "chk"]
    /\ UNCHANGED <<ctlVars, devVars, thrVars, exitPending, afChk, afCall, fault, histVars>>

\* if (mMsgEnabled & CAMERA_MSG_PREVIEW_FRAME), read without the lock
previewThread_msgCheck(p) ==
    /\ ~fault /\ lpc[p] = "chk"
    /\ lpc' = [lpc EXCEPT ![p] = IF "PREVIEW_FRAME" \in mMsgEnabled THEN "call" ELSE "top"]
    /\ UNCHANGED <<ctlVars, devVars, thrVars, exitPending, afChk, afCall, fault, histVars>>

\* mDataFn(CAMERA_MSG_PREVIEW_FRAME, mBuffer, mUser): the first operand is loaded ...
previewThread_load(p) ==
    /\ ~fault /\ lpc[p] = "call"
    /\ \E l \in LoadFirst(mDataFn) : lld' = [lld EXCEPT ![p] = l]
    /\ lpc' = [lpc EXCEPT ![p] = "call2"]
    /\ UNCHANGED <<ctlVars, devVars, active, parVars, facVars, cld, afLd, pc, op, ret,
                   previewThread, exitPending, afChk, afCall, fault, histVars>>

\* ... then the other one, and the call is made
previewThread_call(p) ==
    /\ ~fault /\ lpc[p] = "call2"
    /\ Invoke(UsedFn(lld[p], mDataFn), "PREVIEW_FRAME")
    /\ lld' = [lld EXCEPT ![p] = LdNone]
    /\ lpc' = [lpc EXCEPT ![p] = "top"]
    /\ UNCHANGED <<ctlVars, devVars, active, parVars, facVars, cld, afLd, pc, op, ret,
                   previewThread, exitPending, afChk, afCall>>
    /\ UNCHANGED <<phase, capWin, capPre>>

\* ------------------------------------------------------------------------
\* Specification of the session
\* ------------------------------------------------------------------------
MsgTypes == {{k} : k \in Kinds} \cup {Kinds}

\* the calls that configure the callbacks and the message mask
ConfigStep(t) ==
    \/ \E r \in 1..MaxReg, n \in BOOLEAN, d \in BOOLEAN :
          setCallbacks(t, IF n THEN r ELSE NULL, IF d THEN r ELSE NULL, r)
    \/ \E m \in MsgTypes : enableMsgType(t, m)
    \/ \E m \in MsgTypes : disableMsgType(t, m)

\* the preview and capture calls
PreviewStep(t) ==
    \/ startPreview_enter(t)
    \/ startPreview_open(t)
    \/ startPreview_alloc(t)
    \/ startPreview_init(t)
    \/ startPreview_stream(t)
    \/ startPreview_flag(t)
    \/ startPreview_spawn(t)
    \/ stopPreview_enter(t, "stopPreview")
    \/ stopPreview_check(t)
    \/ stopPreview_uninit(t)
    \/ stopPreview_stopStreaming(t)
    \/ stopPreview_close(t)
    \/ stopPreview_read(t)
    \/ stopPreview_requestExit(t)
    \/ stopPreview_wait(t)
    \/ stopPreview_clear(t)
    \/ takePicture_enter(t)
    \/ pictureThread_shutterCheck(t)
    \/ pictureThread_shutterLoad(t)
    \/ pictureThread_shutterCall(t)
    \/ pictureThread_open(t)
    \/ pictureThread_init(t)
    \/ pictureThread_startStreaming(t)
    \/ pictureThread_jpegCheck(t)
    \/ pictureThread_jpegGrab(t)
    \/ pictureThread_jpegLoad(t)
    \/ pictureThread_jpegCall(t)
    \/ pictureThread_uninit(t)
    \/ pictureThread_stopStreaming(t)
    \/ pictureThread_close(t)

\* autofocus and the cancel calls
FocusStep(t) ==
    \/ \E ok \in BOOLEAN : autoFocus(t, ok)
    \/ cancelAutoFocus(t)
    \/ cancelPicture(t)

AutoFocusTaskStep ==
    \/ autoFocusThread_check
    \/ autoFocusThread_load
    \/ autoFocusThread_call

CallerStep(t) == ConfigStep(t) \/ PreviewStep(t) \/ FocusStep(t)

LoopStep(p) ==
    \/ threadLoop(p)
    \/ previewThread_stopCheck(p)
    \/ previewThread_grab(p)
    \/ previewThread_msgCheck(p)
    \/ previewThread_load(p)
    \/ previewThread_call(p)

Next ==
    \/ \E t \in Callers : CallerStep(t)
    \/ \E p \in Loops : LoopStep(p)
    \/ AutoFocusTaskStep

Spec == Init /\ [][Next]_vars

\* The autofocus task shares nothing with preview and capture but the mask
\* and the callback slots, which it only reads: the two are specified apart.
\* One thread issues the calls; the loops and the tasks run on their own.
NextSeq ==
    \/ \E t \in Callers : ConfigStep(t) \/ PreviewStep(t)
    \/ \E p \in Loops : LoopStep(p)

SpecSeq == InitSeq /\ [][NextSeq]_vars

NextFocus ==
    \/ \E t \in Callers : ConfigStep(t) \/ FocusStep(t)
    \/ AutoFocusTaskStep

SpecFocus == InitSeq /\ [][NextFocus]_vars

\* ------------------------------------------------------------------------
\* Properties of the session
\* ------------------------------------------------------------------------
\* a step of caller t that enters operation o
Calls(t, o) ==
    /\ pc[t] = "idle"
    /\ op'[t] = o
    /\ <<op'[t], ret'[t], pc'[t]>> # <<op[t], ret[t], pc[t]>>

\* a step in which a callback of kind k is invoked
Dispatches(k) ==
    \/ k = "PREVIEW_FRAME" /\ \E p \in Loops : lpc[p] = "call2" /\ lpc'[p] # "call2"
    \/ k = "SHUTTER" /\ \E t \in Callers : pc[t] = "pt_shutter_call2" /\ pc'[t] # "pt_shutter_call2"
    \/ k = "COMPRESSED_IMAGE" /\ \E t \in Callers : pc[t] = "pt_jpeg_call2" /\ pc'[t] # "pt_jpeg_call2"
    \/ k = "FOCUS" /\ \E l \in LdVals : afLd'[l] < afLd[l]

\* C1: with one caller issuing the calls, no preview-frame callback is invoked
\* once the stopPreview call that ended a started preview has returned (and
\* until the next startPreview call).
C1_NoFrameAfterStopReturns ==
    [][/\ Dispatches("PREVIEW_FRAME") => phase # "stopped"
       /\ \A t \in Callers :
             (pc[t] = "stp_clear" /\ pc'[t] # "stp_clear")
                => \A p \in Loops : lpc[p] \in {"unborn", "exited"}]_vars

C1_Witness ==
    /\ phase = "stopped" /\ pc["c1"] = "idle" /\ op["c1"] = "stopPreview"
    /\ \E p \in Loops : lpc[p] = "exited"

\* C2: a startPreview call made while the preview-thread handle is set fails
\* with INVALID_OPERATION, makes no device call, allocates no frame buffer and
\* leaves the stopped flag, the thread handle and the running loop alone.
C2_SecondStartFails ==
    [][\A t \in Callers :
          (Calls(t, "startPreview") /\ mPreviewThread # NULL)
             => /\ ret'[t] = "INVALID_OPERATION"
                /\ pc'[t] = "idle"
                /\ UNCHANGED <<devVars, mHeap, mPreviewFrameSize, previewStopped,
                               mPreviewThread, mLock, lpc, exitPending>>]_vars

C2_Witness ==
    /\ op["c1"] = "startPreview" /\ ret["c1"] = "INVALID_OPERATION"
    /\ mPreviewThread # NULL /\ lpc[mPreviewThread] \notin {"unborn", "exited"}
    /\ ~previewStopped

\* C3: a takePicture call made with callbacks registered and exactly the
\* shutter and compressed-image kinds enabled has produced, when it returns,
\* one shutter notification, then one compressed-image dispatch, and no
\* preview-frame dispatch.
C3_CaptureSequence ==
    capWin = "done" => capLog = <<"SHUTTER", "COMPRESSED_IMAGE">>

\* C6: stopPreview on a session without preview makes no device call, waits
\* on no thread, changes nothing and returns with the stopped flag set and
\* the thread handle null.
StopPcs == {"stp_check", "stp_uninit", "stp_stopstream", "stp_close", "stp_read",
            "stp_reqexit", "stp_wait", "stp_clear"}

C6_IdleStopIsNoOp ==
    [][\A t \in Callers :
          /\ (Calls(t, "stopPreview") /\ mPreviewThread = NULL)
                => /\ pc'[t] = "stp_check"
                   /\ UNCHANGED <<ctlVars, devVars, bgVars>>
          /\ (op[t] = "stopPreview" /\ pc[t] \in StopPcs /\ mPreviewThread = NULL
                /\ pc'[t] # pc[t])
                => /\ pc'[t] \in {"stp_read", "stp_clear", "idle"}
                   /\ UNCHANGED <<ctlVars, devVars, bgVars>>
                   /\ pc'[t] = "idle" => (previewStopped' /\ mPreviewThread' = NULL
                                          /\ ret'[t] = "void")]_vars

C6_Witness ==
    /\ op["c1"] = "stopPreview" /\ pc["c1"] = "stp_clear"
    /\ mPreviewThread = NULL /\ previewThread["c1"] = NULL
    /\ \A p \in Loops : lpc[p] \in {"unborn", "exited"}

\* C7: no notify or data callback slot is invoked while it is NULL.
C7_NoNullCallback == ~fault

\* C9: every frame grab (preview or compressed) happens while the device is
\* streaming: open, init, startStreaming done in order and no uninit,
\* stopStreaming or close since.
C9_GrabOnlyWhenStreaming ==
    [][/\ \A p \in Loops : (lpc[p] = "grab" /\ lpc'[p] # "grab") => DevReady
       /\ \A t \in Callers : (pc[t] = "pt_jpeg_grab" /\ pc'[t] # "pt_jpeg_grab") => DevReady]_vars

\* C10: enableMsgType only adds bits, disableMsgType only removes bits, and
\* no callback of kind k is invoked while k is disabled (the bit of k is clear
\* exactly from the return of a disableMsgType(k) to the next enableMsgType(k),
\* or when it was never set, in which case no dispatch of k was ever begun).
C10_DisableIsImmediate ==
    [][/\ \A t \in Callers : Calls(t, "enableMsgType") => mMsgEnabled \subseteq mMsgEnabled'
       /\ \A t \in Callers : Calls(t, "disableMsgType") => mMsgEnabled' \subseteq mMsgEnabled
       /\ \A k \in Kinds : Dispatches(k) => k \in mMsgEnabled]_vars

\* ------------------------------------------------------------------------
\* setParameters / getParameters (each body is one Mutex::Autolock scope)
\* ------------------------------------------------------------------------
setParameters(t, params) ==
    /\ Idle(t) /\ mLock = "free"
    /\ op' = [op EXCEPT ![t] = "setParameters"]
    /\ lastParams' = params
    /\ IF ~FormatsAccepted(params)
       THEN /\ ret' = [ret EXCEPT ![t] = "-1"]
            /\ UNCHANGED mParameters
       ELSE /\ mParameters' = StoredParameters(params)
            /\ ret' = [ret EXCEPT ![t] = "NO_ERROR"]
    /\ UNCHANGED <<ctlVars, devVars, active, facVars, cbVars, gotParams, pc, previewThread, bgVars,
                   histVars>>

getParameters(t) ==
    /\ Idle(t) /\ mLock = "free"
    /\ op' = [op EXCEPT ![t] = "getParameters"]
    /\ ret' = [ret EXCEPT ![t] = "params"]
    /\ gotParams' = mParameters
    /\ UNCHANGED <<ctlVars, devVars, active, facVars, cbVars, mParameters, lastParams, pc, previewThread,
                   bgVars, histVars>>

NextParams ==
    \/ \E t \in Callers, params \in ParamSpace : setParameters(t, params)
    \/ \E t \in Callers : getParameters(t)

\* the message mask plays no part in parameter handling
InitParams == InitSeq /\ mMsgEnabled = {}

SpecParams == InitParams /\ [][NextParams]_vars

\* C4: setParameters with a preview format other than "yuv422sp" or a picture
\* format other than "jpeg" returns -1 and leaves the stored parameters, and
\* so what getParameters returns, exactly as they were.
BadFormats(params) ==
    params.previewFormat # "yuv422sp" \/ params.pictureFormat # "jpeg"

SetParametersCalled(t) ==
    /\ pc[t] = "idle" /\ op'[t] = "setParameters"
    /\ <<op[t], ret[t], lastParams, mParameters>> # <<op'[t], ret'[t], lastParams', mParameters'>>

C4_BadFormatLeavesParameters ==
    [][/\ \A t \in Callers :
            (SetParametersCalled(t) /\ BadFormats(lastParams'))
               => (ret'[t] = "-1" /\ mParameters' = mParameters)
       /\ \A t \in Callers :
            (pc[t] = "idle" /\ op'[t] = "getParameters") => gotParams' = mParameters]_vars

C4_Witness ==
    /\ op["c1"] = "setParameters" /\ ret["c1"] = "-1"
    /\ lastParams.previewFormat = "yuv422sp" /\ lastParams.pictureFormat = "jpe"
    /\ lastParams.frameRate # mParameters.frameRate
    /\ mParameters # StoredParameters(DefaultParameters)

\* C5: setParameters with preview format "yuv422sp" and picture format "jpeg"
\* returns NO_ERROR whatever preview size is requested, stores every field as
\* requested except the preview size, and stores 640x480 as the preview size.
OtherFields == {"frameRate", "previewFormat", "pictureW", "pictureH", "pictureFormat", "other"}

C5_PreviewSizeForced ==
    [][\A t \in Callers :
          (SetParametersCalled(t) /\ ~BadFormats(lastParams'))
             => /\ ret'[t] = "NO_ERROR"
                /\ mParameters'.previewW = 640 /\ mParameters'.previewH = 480
                /\ \A f \in OtherFields : mParameters'[f] = lastParams'[f]]_vars

C5_Witness ==
    /\ op["c1"] = "setParameters" /\ ret["c1"] = "NO_ERROR"
    /\ lastParams.previewW = 320 /\ lastParams.previewH = 240
    /\ mParameters.previewW = 640 /\ mParameters.previewH = 480
    /\ mParameters.frameRate = 30 /\ mParameters.pictureW = 1280 /\ mParameters.other = "x"

\* ------------------------------------------------------------------------
\* The factory: createInstance, handle release and ~CameraHardware.
\* No lock is taken; each access to `singleton` is one step.
\* ------------------------------------------------------------------------
facOther == <<ctlVars, devVars, active, parVars, cbVars, pc, op, ret, previewThread, bgVars,
              histVars>>

\* if (singleton != 0)
createInstance_check(t) ==
    /\ ipc[t] = "idle" /\ held[t] = NULL
    /\ ipc' = [ipc EXCEPT ![t] = IF singleton # NULL THEN "promote" ELSE "new"]
    /\ UNCHANGED <<singleton, strong, held, hardware, facOther>>

\* hardware = singleton.promote(); if (hardware != 0) return hardware;
createInstance_promote(t) ==
    /\ ipc[t] = "promote"
    /\ IF singleton # NULL /\ strong[singleton] > 0
       THEN /\ strong' = [strong EXCEPT ![singleton] = @ + 1]
            /\ held' = [held EXCEPT ![t] = singleton]
            /\ ipc' = [ipc EXCEPT ![t] = "idle"]
       ELSE /\ ipc' = [ipc EXCEPT ![t] = "new"]
            /\ UNCHANGED <<strong, held>>
    /\ UNCHANGED <<singleton, hardware, facOther>>

\* an object slot nothing refers to any more
SessionFree(s) ==
    /\ strong[s] = 0
    /\ singleton # s
    /\ \A u \in Clients : hardware[u] # s /\ held[u] # s

\* sp<CameraHardwareInterface> hardware(new CameraHardware());
createInstance_new(t) ==
    /\ ipc[t] = "new"
    /\ \E s \in Sessions :
          /\ SessionFree(s)
          /\ \A r \in Sessions : r < s => ~SessionFree(r)
          /\ strong' = [strong EXCEPT ![s] = 1]
          /\ hardware' = [hardware EXCEPT ![t] = s]
    /\ ipc' = [ipc EXCEPT ![t] = "assign"]
    /\ UNCHANGED <<singleton, held, facOther>>

\* singleton = hardware; return hardware;
createInstance_assign(t) ==
    /\ ipc[t] = "assign"
    /\ singleton' = hardware[t]
    /\ held' = [held EXCEPT ![t] = hardware[t]]
    /\ hardware' = [hardware EXCEPT ![t] = NULL]
    /\ ipc' = [ipc EXCEPT ![t] = "idle"]
    /\ UNCHANGED <<strong, facOther>>

\* the client drops its handle; the last strong reference runs the destructor
releaseHandle(t) ==
    /\ ipc[t] = "idle" /\ held[t] # NULL
    /\ strong' = [strong EXCEPT ![held[t]] = @ - 1]
    /\ IF strong[held[t]] = 1
       THEN /\ ipc' = [ipc EXCEPT ![t] = "dtor"]
            /\ hardware' = [hardware EXCEPT ![t] = held[t]]
       ELSE UNCHANGED <<ipc, hardware>>
    /\ held' = [held EXCEPT ![t] = NULL]
    /\ UNCHANGED <<singleton, facOther>>

\* CameraHardware::~CameraHardware() { singleton.clear(); }
destructor(t) ==
    /\ ipc[t] = "dtor"
    /\ singleton' = NULL
    /\ hardware' = [hardware EXCEPT ![t] = NULL]
    /\ ipc' = [ipc EXCEPT ![t] = "idle"]
    /\ UNCHANGED <<strong, held, facOther>>

NextFactory ==
    \E t \in Clients :
        \/ createInstance_check(t)
        \/ createInstance_promote(t)
        \/ createInstance_new(t)
        \/ createInstance_assign(t)
        \/ releaseHandle(t)
        \/ destructor(t)

InitFactory == Init /\ mMsgEnabled = {}

SpecFactory == InitFactory /\ [][NextFactory]_vars

\* C8: at most one live Session exists at a time, and all handles that
\* createInstance has given out and that are still held refer to it.
LiveSessions == {s \in Sessions : strong[s] > 0}

C8_OneLiveSession ==
    /\ Cardinality(LiveSessions) <= 1
    /\ \A t, u \in Clients : (held[t] # NULL /\ held[u] # NULL) => held[t] = held[u]

\* ------------------------------------------------------------------------
\* Locking, ordering and resource properties of the session
\* ------------------------------------------------------------------------
\* positions at which a caller thread is about to make a call on `camera`
DeviceIOPcs == {"sp_open", "sp_init", "sp_stream",
                "stp_uninit", "stp_stopstream", "stp_close",
                "pt_open", "pt_init", "pt_stream", "pt_jpeg_grab",
                "pt_uninit", "pt_stopstream", "pt_close"}

\* C11: no thread holds the session mutex while it makes a device I/O call
\* (open, init, startStreaming, stopStreaming, uninit, close, frame grab).
C11_NoDeviceIOUnderLock ==
    \A t \in Callers : pc[t] \in DeviceIOPcs => mLock # t

\* positions of stopPreview after its first device teardown call was issued
TeardownBegunPcs == {"stp_stopstream", "stp_close", "stp_read", "stp_reqexit",
                     "stp_wait", "stp_clear"}

\* C12: once stopPreview has set the stopped flag and begun tearing down the
\* device, no preview-frame callback is invoked, not even for a frame whose
\* grab started before the flag was set.
C12_NoStaleFrame ==
    [][Dispatches("PREVIEW_FRAME")
          => ~(previewStopped /\ \E t \in Callers : pc[t] \in TeardownBegunPcs)]_vars

\* the position that follows each position of stopPreview when the handle is set
StopSucc(p) ==
    CASE p = "stp_check" -> {"stp_uninit"}
      [] p = "stp_uninit" -> {"stp_stopstream"}
      [] p = "stp_stopstream" -> {"stp_close"}
      [] p = "stp_close" -> {"stp_read"}
      [] p = "stp_read" -> {"stp_reqexit"}
      [] p = "stp_reqexit" -> {"stp_wait"}
      [] p = "stp_wait" -> {"stp_clear"}
      [] p = "stp_clear" -> {"idle", "pt_shutter_chk"}
      [] OTHER -> {}

\* C13: a stopPreview call on a previewing session sets the stopped flag,
\* then calls uninit, stopStreaming and close on the device in that order,
\* then waits for the preview loop to exit, and only then clears the
\* preview-thread handle; the handle is never cleared before the join is over.
C13_StopOrder ==
    [][\A t \in Callers :
          /\ (Calls(t, "stopPreview") /\ mPreviewThread # NULL)
                => /\ previewStopped' /\ pc'[t] = "stp_check"
                   /\ UNCHANGED <<devVars, mPreviewThread, lpc, exitPending>>
          /\ (op[t] = "stopPreview" /\ pc[t] \in StopPcs /\ mPreviewThread # NULL
                /\ pc'[t] # pc[t])
                => /\ previewStopped
                   /\ pc'[t] \in StopSucc(pc[t])
                   /\ pc[t] = "stp_uninit"
                         => (devInit /\ ~devInit' /\ UNCHANGED <<devOpen, devStreaming>>)
                   /\ pc[t] = "stp_stopstream"
                         => (devStreaming /\ ~devStreaming' /\ UNCHANGED <<devOpen, devInit>>)
                   /\ pc[t] = "stp_close"
                         => (devOpen /\ ~devOpen' /\ UNCHANGED <<devInit, devStreaming>>)
                   /\ pc[t] \notin {"stp_uninit", "stp_stopstream", "stp_close"}
                         => UNCHANGED devVars
                   /\ pc[t] = "stp_reqexit" => exitPending'[mPreviewThread]
                   /\ pc[t] = "stp_wait" => lpc[mPreviewThread] = "exited"
                   /\ pc[t] # "stp_clear" => UNCHANGED mPreviewThread
                   /\ pc[t] = "stp_clear"
                         => /\ lpc[mPreviewThread] = "exited"
                            /\ ~devOpen /\ ~devInit /\ ~devStreaming
                            /\ mPreviewThread' = NULL /\ pc'[t] = "idle"]_vars

C13_Witness ==
    /\ op["c1"] = "stopPreview" /\ pc["c1"] = "idle" /\ ret["c1"] = "void"
    /\ phase = "stopped" /\ previewStopped /\ mPreviewThread = NULL
    /\ ~devOpen /\ ~devInit /\ ~devStreaming
    /\ lpc[1] = "exited" /\ exitPending[1]

\* bool CameraHardware::previewEnabled() { return mPreviewThread != 0; }
previewEnabled == mPreviewThread # NULL

\* C14: when a takePicture call returns, whether it was made during preview
\* or on an idle session, previewEnabled() is false, the stopped flag is set,
\* no preview loop is running and the device is closed again (uninit,
\* stopStreaming and close have followed the open of the capture sequence).
C14_TakePictureEndsIdle ==
    [][\A t \in Callers :
          (op[t] = "takePicture" /\ pc[t] # "idle" /\ pc'[t] = "idle")
             => /\ ret'[t] = "NO_ERROR"
                /\ ~previewEnabled'
                /\ previewStopped'
                /\ \A p \in Loops : lpc'[p] \in {"unborn", "exited"}
                /\ ~devOpen' /\ ~devInit' /\ ~devStreaming' /\ devLevel' = 0]_vars

C14_Witness ==
    /\ op["c1"] = "takePicture" /\ pc["c1"] = "idle" /\ ret["c1"] = "NO_ERROR"
    /\ phase = "stopped" /\ lpc[1] = "exited"
    /\ mPreviewThread = NULL /\ previewStopped /\ ~devOpen

\* a PreviewThread that was spawned and has not left threadLoop yet
LoopRunning(p) == lpc[p] \notin {"unborn", "exited"}

\* C15: the preview frame buffer is allocated with size 640*480*2 before the
\* preview loop is spawned, and it is not released, replaced or resized while
\* any preview loop is still running (whichever threads issue the calls).
C15_BufferOutlivesLoop ==
    [][/\ \A p \in Loops :
             (~LoopRunning(p) /\ LoopRunning(p)')
                => (mHeap # NULL /\ mPreviewFrameSize = 640 * 480 * 2
                    /\ UNCHANGED <<mHeap, mPreviewFrameSize>>)
       /\ (\E p \in Loops : LoopRunning(p)) => UNCHANGED <<mHeap, mPreviewFrameSize>>]_vars

\* the session state that autofocus and the cancel calls have no business with
SessionState == <<ctlVars, devVars, parVars, lpc, exitPending, phase>>

\* C16: every autoFocus call reports success and spawns a one-shot task, which
\* delivers one focus notification if the focus kind is enabled when it checks
\* the mask and nothing otherwise; autoFocus, cancelAutoFocus and cancelPicture
\* report success and change no session state.
C16_AutoFocusAlwaysSucceeds ==
    [][/\ \A t \in Callers :
             Calls(t, "autoFocus")
                => (ret'[t] = "NO_ERROR" /\ afChk' = afChk + 1 /\ UNCHANGED SessionState)
       /\ \A t \in Callers :
             (Calls(t, "cancelAutoFocus") \/ Calls(t, "cancelPicture"))
                => (ret'[t] = "NO_ERROR" /\ UNCHANGED <<SessionState, afChk, afCall, afLd>>)
       /\ afChk' < afChk
             => (afCall' = IF "FOCUS" \in mMsgEnabled THEN afCall + 1 ELSE afCall)
       /\ afCall' < afCall => AfLoaded(LdVals)' = AfLoaded(LdVals) + 1
       /\ Dispatches("FOCUS") => (~fault' /\ UNCHANGED SessionState)]_vars

\* ------------------------------------------------------------------------
\* Concurrent callers: two threads issue startPreview, stopPreview and
\* takePicture against one session while the preview loops run
\* ------------------------------------------------------------------------
NextConc ==
    \/ \E t \in Callers : PreviewStep(t)
    \/ \E p \in Loops : LoopStep(p)

\* three of the values the uninitialised mask may hold
ConcMasks == {{}, {"PREVIEW_FRAME", "SHUTTER"}, {"COMPRESSED_IMAGE"}}

InitConc == Init /\ mMsgEnabled \in ConcMasks

SpecConc == InitConc /\ [][NextConc]_vars

\* C17: under any interleaving of concurrent startPreview and stopPreview
\* calls, no preview loop is running while the preview-thread handle is null
\* (previewEnabled() false), stopPreview clears only the handle of the loop it
\* joined, and at most one preview loop exists at a time.
C17_NullHandleMeansNoLoop ==
    /\ ~previewEnabled => \A p \in Loops : ~LoopRunning(p)
    /\ Cardinality({p \in Loops : LoopRunning(p)}) <= 1
    /\ \A t \in Callers : pc[t] = "stp_clear" => previewThread[t] = mPreviewThread

\* caller t makes the device call that stands at position p
DeviceCall(t, p) == pc[t] = p /\ pc'[t] # p

\* C18: under any interleaving of startPreview, stopPreview and takePicture
\* calls from concurrent callers, the device is never opened while it is open,
\* and uninit, stopStreaming and close are never issued on a closed device nor
\* twice for one open.
C18_OpenTeardownAlternate ==
    [][\A t \in Callers :
          /\ (DeviceCall(t, "sp_open") \/ DeviceCall(t, "pt_open"))
                => (~devOpen /\ ~devInit /\ ~devStreaming)
          /\ (DeviceCall(t, "stp_uninit") \/ DeviceCall(t, "pt_uninit"))
                => (devOpen /\ devInit)
          /\ (DeviceCall(t, "stp_stopstream") \/ DeviceCall(t, "pt_stopstream"))
                => (devOpen /\ devStreaming)
          /\ (DeviceCall(t, "stp_close") \/ DeviceCall(t, "pt_close"))
                => devOpen]_vars

\* the function called and the token passed come from one setCallbacks call
\* (a call through NULL is the subject of C7)
Paired(fn, user) == fn # NULL => user = fn

\* C19: every callback invocation, by the preview loop, the capture sequence
\* or the autofocus task, uses a callback function and a consumer token that
\* were registered by the same setCallbacks call.
C19_CallbackTokenPaired ==
    [][/\ \A p \in Loops :
             (lpc[p] = "call2" /\ lpc'[p] # "call2")
                => Paired(UsedFn(lld[p], mDataFn), UsedUser(lld[p]))
       /\ \A t \in Callers :
             (pc[t] = "pt_shutter_call2" /\ pc'[t] # "pt_shutter_call2")
                => Paired(UsedFn(cld[t], mNotifyFn), UsedUser(cld[t]))
       /\ \A t \in Callers :
             (pc[t] = "pt_jpeg_call2" /\ pc'[t] # "pt_jpeg_call2")
                => Paired(UsedFn(cld[t], mDataFn), UsedUser(cld[t]))
       /\ \A l \in LdVals :
             afLd'[l] < afLd[l] => Paired(UsedFn(l, mNotifyFn), UsedUser(l))]_vars

\* positions at which a caller thread is inside a callback invocation
CallbackPcs == {"pt_shutter_call", "pt_shutter_call2", "pt_jpeg_call", "pt_jpeg_call2"}

\* C20: no notify or data callback is invoked while the invoking thread holds
\* the session mutex: the preview loop and the autofocus task never take it,
\* and a caller thread inside pictureThread has released it.
C20_NoCallbackUnderLock ==
    /\ mLock \in {"free"} \cup Callers
    /\ \A t \in Callers : pc[t] \in CallbackPcs => mLock # t

C20_Witness ==
    /\ pc["c1"] = "pt_jpeg_call2" /\ mLock = "free"
    /\ UsedFn(cld["c1"], mDataFn) # NULL
    /\ capLog = <<"SHUTTER">>

====
